---- MODULE Spec2Model ----
(***************************************************************************)
(* Model of flask_adminex/ext/sqlamodel.py: the SQLAlchemy model view      *)
(* (ModelView) and its form converter (AdminModelConverter).               *)
(*                                                                         *)
(* Four specifications share the variables below:                          *)
(*   SpecScaffold  scaffold_list_columns / scaffold_sortable_columns       *)
(*   SpecConvert   AdminModelConverter.convert                             *)
(*   SpecList      get_list                                                *)
(*   Spec          create_model / update_model / delete_model              *)
(***************************************************************************)
EXTENDS Integers, Sequences, FiniteSets, TLC

VARIABLES
    mapper,            \* mapper.iterate_properties of self.model
    list_columns,      \* last return of scaffold_list_columns
    sortable_columns,  \* last outcome of scaffold_sortable_columns
    prop,              \* the property handed to convert
    field_args,        \* the field_args handed to convert
    hide_backrefs,     \* ModelView.hide_backrefs of the converter's view
    form_field,        \* last return of convert
    table,             \* rows of self.model in the database (get_list)
    page_size,         \* self.page_size
    list_result,       \* last return of get_list
    db,                \* committed rows of self.model, by identity
    mem,               \* attribute values of the objects held by the session
    pending,           \* objects added to the session and not yet flushed
    accepted,          \* per identity, the data of the last successful call
    flashes,           \* messages handed to flask.flash so far
    last               \* outcome of the last model handler call

vars == <<mapper, list_columns, sortable_columns, prop, field_args,
          hide_backrefs, form_field, table, page_size, list_result,
          db, mem, pending, accepted, flashes, last>>

scaffoldVars == <<mapper, list_columns, sortable_columns>>
convertVars == <<prop, field_args, hide_backrefs, form_field>>
listVars == <<table, page_size, list_result>>
crudVars == <<db, mem, pending, accepted, flashes, last>>

(***************************************************************************)
(* Bounds                                                                  *)
(***************************************************************************)
MaxProps == 2
MaxCols == 2
MaxRows == 2
MaxPageSize == 2
MaxPage == 1
MaxModels == 2
MaxFlashes == 1

(***************************************************************************)
(* Mapper metadata                                                         *)
(***************************************************************************)
\* A sqlalchemy Column as far as this code reads it: column.primary_key,
\* bool(column.foreign_keys) and column.nullable.
Column == [primary_key : BOOLEAN, foreign_keys : BOOLEAN, nullable : BOOLEAN]

\* Columns with sqlalchemy's default nullability (nullable = not primary_key).
DefaultColumn == {c \in Column : c.nullable = ~c.primary_key}

Direction == {"MANYTOONE", "ONETOMANY", "MANYTOMANY"}

PlainColumn == [primary_key |-> FALSE, foreign_keys |-> FALSE, nullable |-> TRUE]
PrimaryKeyColumn == [primary_key |-> TRUE, foreign_keys |-> FALSE, nullable |-> FALSE]

\* prop.columns: the first column from S; the code reads nothing but the
\* number of the further ones, which are plain or primary key columns.
ColumnSeqs(S) ==
    UNION {{cs \in [1..n -> S \cup {PlainColumn, PrimaryKeyColumn}] :
               /\ cs[1] \in S
               /\ \A i \in 2..n : cs[i] \in {PlainColumn, PrimaryKeyColumn}} :
           n \in 1..MaxCols}

Key(i) == <<"key", i>>

\* A mapper property.  kind "rel" is a RelationshipProperty (columns holds
\* local_remote_pairs[0][0]), kind "col" a ColumnProperty (columns is
\* prop.columns), kind "other" any other MapperProperty.
RelProps(k, S) ==
    {[kind |-> "rel", key |-> k, direction |-> d, columns |-> <<c>>] :
        d \in Direction, c \in S}
ColProps(k, S) ==
    {[kind |-> "col", key |-> k, direction |-> "NONE", columns |-> cs] :
        cs \in ColumnSeqs(S)}
OtherProps(k) ==
    {[kind |-> "other", key |-> k, direction |-> "NONE", columns |-> <<>>]}

\* Every property convert can be handed.
Props(k) == RelProps(k, Column) \cup ColProps(k, Column) \cup OtherProps(k)

\* Properties of a scaffolded mapper.  The scaffolding never reads a
\* relationship's local column, so one representative is enough there.
MapperProps(k) ==
    RelProps(k, {PlainColumn}) \cup ColProps(k, DefaultColumn) \cup OtherProps(k)

\* Mappers: property keys are unique within a mapper.
Mappers ==
    UNION {{m \in [1..n -> UNION {MapperProps(Key(i)) : i \in 1..n}] :
               \A i \in 1..n : m[i].key = Key(i)} : n \in 0..MaxProps}

isinstance_RelationshipProperty(p) == p.kind = "rel"
isinstance_ColumnProperty(p) == p.kind = "col"

\* Variant: only the primary key is looked at.
IsKeyColumnPkOnly(column) == column.primary_key

\* "column.foreign_keys or column.primary_key"
IsKeyColumn(column) == column.foreign_keys \/ column.primary_key

(***************************************************************************)
(* ModelView.scaffold_list_columns                                         *)
(***************************************************************************)
RECURSIVE scaffold_list_columns_from(_, _, _)
scaffold_list_columns_from(m, i, columns) ==
    IF i > Len(m) THEN columns
    ELSE LET p == m[i] IN
         IF isinstance_RelationshipProperty(p)
         THEN IF p.direction = "MANYTOONE"
              THEN scaffold_list_columns_from(m, i + 1, Append(columns, p.key))
              ELSE scaffold_list_columns_from(m, i + 1, columns)
         ELSE IF isinstance_ColumnProperty(p)
         THEN IF IsKeyColumn(p.columns[1])
              THEN scaffold_list_columns_from(m, i + 1, columns)
              ELSE scaffold_list_columns_from(m, i + 1, Append(columns, p.key))
         ELSE scaffold_list_columns_from(m, i + 1, columns)

scaffold_list_columns(m) == scaffold_list_columns_from(m, 1, <<>>)

(***************************************************************************)
(* ModelView.scaffold_sortable_columns                                     *)
(***************************************************************************)
\* dict assignment columns[k] = v
DictSet(d, k, v) == [x \in DOMAIN d \cup {k} |-> IF x = k THEN v ELSE d[x]]

EmptyDict == [x \in {} |-> x]

RECURSIVE scaffold_sortable_columns_from(_, _, _)
scaffold_sortable_columns_from(m, i, columns) ==
    IF i > Len(m) THEN [raised |-> FALSE, columns |-> columns]
    ELSE LET p == m[i] IN
         IF isinstance_ColumnProperty(p)
         THEN IF Len(p.columns) > 1
              THEN [raised |-> TRUE, columns |-> EmptyDict]
              ELSE IF IsKeyColumn(p.columns[1])
              THEN scaffold_sortable_columns_from(m, i + 1, columns)
              ELSE scaffold_sortable_columns_from(m, i + 1,
                                                  DictSet(columns, p.key, p.key))
         ELSE scaffold_sortable_columns_from(m, i + 1, columns)

\* Variant: the multi-column check comes after the pk/fk test.
RECURSIVE scaffold_sortable_columns_key_first_from(_, _, _)
scaffold_sortable_columns_key_first_from(m, i, columns) ==
    IF i > Len(m) THEN [raised |-> FALSE, columns |-> columns]
    ELSE LET p == m[i] IN
         IF isinstance_ColumnProperty(p)
         THEN IF IsKeyColumn(p.columns[1])
              THEN scaffold_sortable_columns_key_first_from(m, i + 1, columns)
              ELSE IF Len(p.columns) > 1
              THEN [raised |-> TRUE, columns |-> EmptyDict]
              ELSE scaffold_sortable_columns_key_first_from(
                       m, i + 1, DictSet(columns, p.key, p.key))
         ELSE scaffold_sortable_columns_key_first_from(m, i + 1, columns)

scaffold_sortable_columns_key_first(m) ==
    scaffold_sortable_columns_key_first_from(m, 1, EmptyDict)

scaffold_sortable_columns(m) == scaffold_sortable_columns_from(m, 1, EmptyDict)

NotCalledList == [called |-> FALSE, columns |-> <<>>]
NotCalledSortable == [called |-> FALSE, raised |-> FALSE, columns |-> EmptyDict]

ScaffoldListColumns ==
    /\ list_columns' = [called |-> TRUE, columns |-> scaffold_list_columns(mapper)]
    /\ UNCHANGED <<mapper, sortable_columns, convertVars, listVars, crudVars>>

ScaffoldSortableColumns ==
    /\ LET r == scaffold_sortable_columns(mapper) IN
       sortable_columns' = [called |-> TRUE, raised |-> r.raised,
                            columns |-> r.columns]
    /\ UNCHANGED <<mapper, list_columns, convertVars, listVars, crudVars>>

(***************************************************************************)
(* AdminModelConverter.convert                                             *)
(***************************************************************************)
\* dict.update
DictUpdate(d, e) ==
    [x \in DOMAIN d \cup DOMAIN e |-> IF x \in DOMAIN e THEN e[x] ELSE d[x]]

\* field_args as passed by model_form: None, or a dict of keyword arguments.
FieldArgs ==
    {[is_none |-> TRUE, items |-> EmptyDict],
     [is_none |-> FALSE, items |-> EmptyDict],
     [is_none |-> FALSE, items |-> [allow_blank |-> TRUE]],
     [is_none |-> FALSE, items |-> [allow_blank |-> FALSE]],
     [is_none |-> FALSE, items |-> [label |-> "Label"]],
     [is_none |-> FALSE, items |-> [allow_blank |-> TRUE, label |-> "Label"]]}

\* "if field_args:" is true of a non-empty dict only
Truthy(fa) == ~fa.is_none /\ DOMAIN fa.items # {}

convert_kwargs(local_column, fa) ==
    LET kwargs == [validators |-> <<>>, filters |-> <<>>,
                   allow_blank |-> local_column.nullable, default |-> "None"]
    IN IF Truthy(fa) THEN DictUpdate(kwargs, fa.items) ELSE kwargs

NoField == [field |-> "None", kwargs |-> EmptyDict, super_args |-> <<>>]

\* Variant: backrefs are hidden whatever the view says.
skip_backref_always(local_column, hide) == ~local_column.foreign_keys

\* "not local_column.foreign_keys and self.view.hide_backrefs"
skip_backref(local_column, hide) == ~local_column.foreign_keys /\ hide

\* Variant: the pk/fk test is skipped and every property is delegated.
convert_column_no_key_test(p, fa) ==
    [field |-> "super.convert", kwargs |-> EmptyDict,
     super_args |-> <<"model", "mapper", p, fa>>]

\* the else branch: a property that is no RelationshipProperty
convert_column(p, fa) ==
    IF isinstance_ColumnProperty(p) /\ IsKeyColumn(p.columns[1])
    THEN NoField
    ELSE [field |-> "super.convert", kwargs |-> EmptyDict,
          super_args |-> <<"model", "mapper", p, fa>>]

\* Variant: a many-to-one relationship is suppressed like a backref.
convert_relationship_m2o_suppressed(hide, p, fa) ==
    LET local_column == p.columns[1]
        kwargs == convert_kwargs(local_column, fa)
    IN IF p.direction \in {"MANYTOONE", "ONETOMANY"}
       THEN IF skip_backref(local_column, hide)
            THEN NoField
            ELSE [field |-> IF p.direction = "MANYTOONE"
                            THEN "QuerySelectField"
                            ELSE "QuerySelectMultipleField",
                  kwargs |-> kwargs, super_args |-> <<>>]
       ELSE NoField

\* the if branch: a RelationshipProperty
convert_relationship(hide, p, fa) ==
    LET local_column == p.columns[1]
        kwargs == convert_kwargs(local_column, fa)
    IN IF p.direction = "MANYTOONE"
       THEN [field |-> "QuerySelectField", kwargs |-> kwargs, super_args |-> <<>>]
       ELSE IF p.direction = "ONETOMANY"
       THEN IF skip_backref(local_column, hide)
            THEN NoField
            ELSE [field |-> "QuerySelectMultipleField", kwargs |-> kwargs,
                  super_args |-> <<>>]
       ELSE NoField

convert(hide, p, fa) ==
    IF isinstance_RelationshipProperty(p)
    THEN convert_relationship(hide, p, fa)
    ELSE convert_column(p, fa)

NotConverted == [called |-> FALSE, field |-> "None", kwargs |-> EmptyDict,
                 super_args |-> <<>>]

Convert ==
    /\ LET r == convert(hide_backrefs, prop, field_args) IN
       form_field' = [called |-> TRUE, field |-> r.field, kwargs |-> r.kwargs,
                      super_args |-> r.super_args]
    /\ UNCHANGED <<prop, field_args, hide_backrefs, scaffoldVars, listVars, crudVars>>

(***************************************************************************)
(* ModelView.get_list                                                      *)
(***************************************************************************)
\* A stored model: its own sort value and the sort value of the related
\* "user" row; NoUser when the model has no related row.  The two sort
\* values of a model differ, so that the two orderings differ.
NoUser == 0
NameVals == 1..2
Row == {r \in [name : NameVals, user : {NoUser} \cup NameVals] :
           /\ r.user # r.name
           /\ r.user = NoUser => r.name = 1}
Tables == UNION {[1..n -> Row] : n \in 0..MaxRows}

\* self._sortable_columns: column name -> sort field.  A string is kept as
\* its dot-separated parts.
SortableColumns ==
    [name  |-> [type |-> "basestring", parts |-> <<"name">>],
     user  |-> [type |-> "basestring", parts |-> <<"user", "name">>],
     attr  |-> [type |-> "InstrumentedAttribute", parts |-> <<"user", "name">>],
     other |-> [type |-> "other", parts |-> <<>>]]

SortColumnInputs == DOMAIN SortableColumns \cup {"missing"}

NoSortField == [type |-> "None", parts |-> <<>>]
NoQuerySort == [join |-> "None", order_by |-> <<>>, desc |-> FALSE]

\* Variant: the sort field's type is not looked at.
sort_clause_any_type(has_sort, sort_column, sort_desc) ==
    IF has_sort /\ sort_column \in DOMAIN SortableColumns
    THEN LET sort_field == SortableColumns[sort_column] IN
         [join |-> IF Len(sort_field.parts) > 1 THEN sort_field.parts[1] ELSE "None",
          order_by |-> IF sort_field.parts = <<>> THEN <<"name">> ELSE sort_field.parts,
          desc |-> sort_desc]
    ELSE NoQuerySort

\* "# Sorting": the join and order_by put on the query
sort_clause(has_sort, sort_column, sort_desc) ==
    IF has_sort
    THEN IF sort_column \in DOMAIN SortableColumns
         THEN LET sort_field == SortableColumns[sort_column]
                  joined ==
                      IF sort_field.type = "basestring"
                      THEN IF Len(sort_field.parts) > 1
                           THEN sort_field.parts[1]
                           ELSE "None"
                      ELSE IF sort_field.type = "InstrumentedAttribute"
                      THEN sort_field.parts[1]
                      ELSE "None"
                  field ==
                      IF sort_field.type \in {"basestring", "InstrumentedAttribute"}
                      THEN sort_field
                      ELSE NoSortField
              IN IF field # NoSortField
                 THEN [join |-> joined, order_by |-> field.parts, desc |-> sort_desc]
                 ELSE NoQuerySort
         ELSE NoQuerySort
    ELSE NoQuerySort

\* Variant: the offset is the page number.
page_offset_unscaled(has_page, page, size) == IF has_page THEN page ELSE 0

\* "# Pagination": query.offset(page * self.page_size) when page is given
page_offset(has_page, page, size) == IF has_page THEN page * size ELSE 0

\* The value a row is ordered by under an order_by clause.
SortKey(t, i, order_by) ==
    IF Len(order_by) > 1 THEN t[i].user ELSE t[i].name

Before(t, a, b, order_by, is_desc) ==
    IF is_desc
    THEN SortKey(t, a, order_by) > SortKey(t, b, order_by)
    ELSE SortKey(t, a, order_by) < SortKey(t, b, order_by)

RECURSIVE Insert(_, _, _, _, _)
Insert(t, sorted, x, order_by, is_desc) ==
    IF sorted = <<>> THEN <<x>>
    ELSE IF Before(t, x, Head(sorted), order_by, is_desc)
    THEN <<x>> \o sorted
    ELSE <<Head(sorted)>> \o Insert(t, Tail(sorted), x, order_by, is_desc)

\* ORDER BY: rows with equal sort values keep the table's order.
RECURSIVE OrderBy(_, _, _, _)
OrderBy(t, ids, order_by, is_desc) ==
    IF ids = <<>> THEN <<>>
    ELSE Insert(t, OrderBy(t, SubSeq(ids, 1, Len(ids) - 1), order_by, is_desc),
                ids[Len(ids)], order_by, is_desc)

\* query.join(...): an inner join keeps the models that have a related row.
RECURSIVE Join(_, _, _)
Join(t, i, joined) ==
    IF i > Len(t) THEN <<>>
    ELSE IF joined = "None" \/ t[i].user # NoUser
    THEN <<i>> \o Join(t, i + 1, joined)
    ELSE Join(t, i + 1, joined)

\* The rows selected by the query before OFFSET and LIMIT.
Selected(t, q) ==
    LET joined == Join(t, 1, q.join)
    IN IF q.order_by = <<>> THEN joined
       ELSE OrderBy(t, joined, q.order_by, q.desc)

RECURSIVE Offset(_, _)
Offset(s, n) == IF n = 0 \/ s = <<>> THEN s ELSE Offset(Tail(s), n - 1)

RECURSIVE Limit(_, _)
Limit(s, n) == IF n = 0 \/ s = <<>> THEN <<>> ELSE <<Head(s)>> \o Limit(Tail(s), n - 1)

\* query.all()
All(t, q) == Limit(Offset(Selected(t, q), q.offset), q.limit)

get_list(t, size, has_page, page, has_sort, sort_column, sort_desc, execute) ==
    LET count == Len(t)
        sorting == sort_clause(has_sort, sort_column, sort_desc)
        query == [join |-> sorting.join, order_by |-> sorting.order_by,
                  desc |-> sorting.desc,
                  offset |-> page_offset(has_page, page, size),
                  limit |-> size]
    IN [count |-> count, query |-> query, executed |-> execute,
        rows |-> IF execute THEN All(t, query) ELSE <<>>]

NoArgs == [has_page |-> FALSE, page |-> 0, has_sort |-> FALSE,
           sort_column |-> "missing", sort_desc |-> FALSE]

NotListed ==
    [called |-> FALSE, args |-> NoArgs, count |-> 0, executed |-> FALSE,
     query |-> [join |-> "None", order_by |-> <<>>, desc |-> FALSE,
                offset |-> 0, limit |-> 0],
     rows |-> <<>>]

GetList ==
    /\ \E has_page \in BOOLEAN, page \in 0..MaxPage, has_sort \in BOOLEAN,
          sort_column \in SortColumnInputs, sort_desc \in BOOLEAN,
          execute \in BOOLEAN :
          /\ has_page \/ page = 0
          /\ has_sort \/ sort_column = "missing"
          /\ LET r == get_list(table, page_size, has_page, page, has_sort,
                               sort_column, sort_desc, execute)
             IN list_result' =
                   [called |-> TRUE,
                    args |-> [has_page |-> has_page, page |-> page,
                              has_sort |-> has_sort, sort_column |-> sort_column,
                              sort_desc |-> sort_desc],
                    count |-> r.count, executed |-> r.executed,
                    query |-> r.query, rows |-> r.rows]
    /\ UNCHANGED <<table, page_size, scaffoldVars, convertVars, crudVars>>

(***************************************************************************)
(* The session and the model handlers                                      *)
(***************************************************************************)
Ids == 1..MaxModels
Vals == {"a", "b"}

\* The data of a submitted form: one value per form field, in field order.
Forms == {[f1 |-> v, f2 |-> v] : v \in Vals}

\* No row / no object under an identity.
Absent == [f1 |-> "absent", f2 |-> "absent"]

\* self.model(): a new object, no attribute set yet.
NewModel == [f1 |-> "None", f2 |-> "None"]

\* Exceptions a step can raise: is_Exception is isinstance(ex, Exception),
\* str_ok tells whether str(ex) returns (it raises UnicodeEncodeError for a
\* message that is a unicode string with non-ASCII characters).
NoExc == [name |-> "None", is_Exception |-> FALSE, str_ok |-> FALSE]
Excs ==
    {[name |-> "IntegrityError", is_Exception |-> TRUE, str_ok |-> TRUE],
     [name |-> "ValueError(u'\\xe9')", is_Exception |-> TRUE, str_ok |-> FALSE],
     [name |-> "KeyboardInterrupt", is_Exception |-> FALSE, str_ok |-> TRUE]}
UnicodeEncodeError ==
    [name |-> "UnicodeEncodeError", is_Exception |-> TRUE, str_ok |-> TRUE]

\* What goes wrong in a call: the step that raises, how many form fields
\* populate_obj had set before it raised, and the exception.
NoFault == [step |-> "none", applied |-> 0, exc |-> NoExc]
Faults(steps) ==
    {NoFault} \cup
    {[step |-> st, applied |-> k, exc |-> e] :
        st \in steps, k \in 0..1, e \in Excs}

ValidFault(f) == f.step = "populate" \/ f.applied = 0

\* form.populate_obj(model), stopped after the first k fields when it raises
populate_obj(obj, form, k) ==
    [f1 |-> IF k >= 1 THEN form.f1 ELSE obj.f1,
     f2 |-> IF k >= 2 THEN form.f2 ELSE obj.f2]

FreeIds(d) == {i \in Ids : d[i] = Absent}
NextId(d) == CHOOSE i \in FreeIds(d) : \A j \in FreeIds(d) : i <= j

\* session.commit() that succeeds: every change the session holds is flushed
\* and committed, the pending objects as new rows.
RECURSIVE Flush(_, _)
Flush(m, pend) ==
    IF pend = <<>> THEN m
    ELSE Flush([m EXCEPT ![NextId(m)] = Head(pend)], Tail(pend))

\* Outcome of a handler: ret is "True", "False", "None" or "raise".
Returned(ret, fl) == [ret |-> ret, propagated |-> NoExc, flashes |-> fl]
Raised(exc, fl) == [ret |-> "raise", propagated |-> exc, flashes |-> fl]

Flash(fl, message, category) ==
    Append(fl, [message |-> message, category |-> category])

\* "except Exception, ex: flash(prefix + str(ex), 'error'); return False"
except_Exception(exc, prefix, fl) ==
    IF ~exc.is_Exception THEN Raised(exc, fl)
    ELSE IF ~exc.str_ok THEN Raised(UnicodeEncodeError, fl)
    ELSE Returned("False", Flash(fl, prefix, "error"))

\* Variant: delete_model wrapped in the handler of update_model.
delete_outcome_handled(fault, fl) ==
    IF fault.step = "none" THEN Returned("True", fl)
    ELSE except_Exception(fault.exc, "Failed to delete model. ", fl)

\* delete_model has no try block
delete_outcome(fault, fl) ==
    IF fault.step = "none" THEN Returned("None", fl)
    ELSE Raised(fault.exc, fl)

\* The session after the statements of create_model.  A commit that raises
\* is rolled back by the session: pending objects are expunged and the
\* loaded objects expired.
create_session(form, fault) ==
    IF fault.step \in {"construct", "populate", "add"}
    THEN [db |-> db, mem |-> mem, pending |-> pending]
    ELSE LET model == populate_obj(NewModel, form, 2)
             added == Append(pending, model)
         IN IF fault.step = "commit"
            THEN [db |-> db, mem |-> db, pending |-> <<>>]
            ELSE [db |-> Flush(mem, added), mem |-> Flush(mem, added),
                  pending |-> <<>>]

\* The session after the statements of update_model.
update_session(form, id, fault) ==
    IF fault.step = "populate"
    THEN [db |-> db,
          mem |-> [mem EXCEPT ![id] = populate_obj(mem[id], form, fault.applied)],
          pending |-> pending]
    ELSE LET populated == [mem EXCEPT ![id] = populate_obj(mem[id], form, 2)]
         IN IF fault.step = "commit"
            THEN [db |-> db, mem |-> db, pending |-> <<>>]
            ELSE [db |-> Flush(populated, pending),
                  mem |-> Flush(populated, pending), pending |-> <<>>]

\* The session after the statements of delete_model.
delete_session(id, fault) ==
    IF fault.step = "delete"
    THEN [db |-> db, mem |-> mem, pending |-> pending]
    ELSE LET deleted == [mem EXCEPT ![id] = Absent]
         IN IF fault.step = "commit"
            THEN [db |-> db, mem |-> db, pending |-> <<>>]
            ELSE [db |-> Flush(deleted, pending),
                  mem |-> Flush(deleted, pending), pending |-> <<>>]

Outcome(op, fault, out) ==
    [op |-> op, step |-> fault.step, exc |-> fault.exc, ret |-> out.ret,
     propagated |-> out.propagated, flashes_before |-> Len(flashes)]

CreateModel ==
    /\ FreeIds(mem) # {}
    /\ \E form \in Forms, fault \in Faults({"construct", "populate", "add", "commit"}) :
          /\ ValidFault(fault)
          /\ LET s == create_session(form, fault)
                 out == IF fault.step = "none"
                        THEN Returned("True", flashes)
                        ELSE except_Exception(fault.exc, "Failed to create model. ",
                                              flashes)
             IN /\ Len(out.flashes) <= MaxFlashes
                /\ db' = s.db
                /\ mem' = s.mem
                /\ pending' = s.pending
                /\ accepted' = IF fault.step = "none"
                               THEN [accepted EXCEPT ![NextId(mem)] = form]
                               ELSE accepted
                /\ flashes' = out.flashes
                /\ last' = Outcome("create_model", fault, out)
    /\ UNCHANGED <<scaffoldVars, convertVars, listVars>>

UpdateModel ==
    /\ \E id \in Ids, form \in Forms, fault \in Faults({"populate", "commit"}) :
          /\ mem[id] # Absent
          /\ ValidFault(fault)
          /\ LET s == update_session(form, id, fault)
                 out == IF fault.step = "none"
                        THEN Returned("True", flashes)
                        ELSE except_Exception(fault.exc, "Failed to update model. ",
                                              flashes)
             IN /\ Len(out.flashes) <= MaxFlashes
                /\ db' = s.db
                /\ mem' = s.mem
                /\ pending' = s.pending
                /\ accepted' = IF fault.step = "none"
                               THEN [accepted EXCEPT ![id] = form]
                               ELSE accepted
                /\ flashes' = out.flashes
                /\ last' = Outcome("update_model", fault, out)
    /\ UNCHANGED <<scaffoldVars, convertVars, listVars>>

DeleteModel ==
    /\ \E id \in Ids, fault \in Faults({"delete", "commit"}) :
          /\ mem[id] # Absent
          /\ ValidFault(fault)
          /\ LET s == delete_session(id, fault)
                 out == delete_outcome(fault, flashes)
             IN /\ Len(out.flashes) <= MaxFlashes
                /\ db' = s.db
                /\ mem' = s.mem
                /\ pending' = s.pending
                /\ accepted' = IF fault.step = "none"
                               THEN [accepted EXCEPT ![id] = Absent]
                               ELSE accepted
                /\ flashes' = out.flashes
                /\ last' = Outcome("delete_model", fault, out)
    /\ UNCHANGED <<scaffoldVars, convertVars, listVars>>

(***************************************************************************)
(* Specifications                                                          *)
(***************************************************************************)
NoLast == [op |-> "none", step |-> "none", exc |-> NoExc, ret |-> "None",
           propagated |-> NoExc, flashes_before |-> 0]
NoProp == [kind |-> "other", key |-> Key(1), direction |-> "NONE", columns |-> <<>>]
NoFieldArgs == [is_none |-> TRUE, items |-> EmptyDict]

ScaffoldIdle ==
    /\ mapper = <<>>
    /\ list_columns = NotCalledList
    /\ sortable_columns = NotCalledSortable

ConvertIdle ==
    /\ prop = NoProp
    /\ field_args = NoFieldArgs
    /\ hide_backrefs = TRUE
    /\ form_field = NotConverted

ListIdle ==
    /\ table = <<>>
    /\ page_size = 1
    /\ list_result = NotListed

CrudIdle ==
    /\ db = [i \in Ids |-> Absent]
    /\ mem = [i \in Ids |-> Absent]
    /\ pending = <<>>
    /\ accepted = [i \in Ids |-> Absent]
    /\ flashes = <<>>
    /\ last = NoLast

\* Scaffolding over every mapper.
InitScaffold ==
    /\ mapper \in Mappers
    /\ list_columns = NotCalledList
    /\ sortable_columns = NotCalledSortable
    /\ ConvertIdle /\ ListIdle /\ CrudIdle

NextScaffold == ScaffoldListColumns \/ ScaffoldSortableColumns

SpecScaffold == InitScaffold /\ [][NextScaffold]_vars

\* The converter over every property, field_args and hide_backrefs.
InitConvert ==
    /\ prop \in Props(Key(1))
    /\ field_args \in FieldArgs
    /\ hide_backrefs \in BOOLEAN
    /\ form_field = NotConverted
    /\ ScaffoldIdle /\ ListIdle /\ CrudIdle

NextConvert == Convert

SpecConvert == InitConvert /\ [][NextConvert]_vars

\* get_list over every table and page size.
InitList ==
    /\ table \in Tables
    /\ page_size \in 1..MaxPageSize
    /\ list_result = NotListed
    /\ ScaffoldIdle /\ ConvertIdle /\ CrudIdle

NextList == GetList

SpecList == InitList /\ [][NextList]_vars

\* The model handlers on an empty database with a fresh session.
Init == ScaffoldIdle /\ ConvertIdle /\ ListIdle /\ CrudIdle

Next == CreateModel \/ UpdateModel \/ DeleteModel

Spec == Init /\ [][Next]_vars

(***************************************************************************)
(* Properties of the scaffolding (SpecScaffold)                            *)
(***************************************************************************)
Range(f) == {f[x] : x \in DOMAIN f}

KeyColumnProps ==
    {i \in 1..Len(mapper) :
        /\ mapper[i].kind = "col"
        /\ mapper[i].columns[1].primary_key \/ mapper[i].columns[1].foreign_keys}

PlainColumnProps ==
    {i \in 1..Len(mapper) : mapper[i].kind = "col" /\ i \notin KeyColumnProps}

ManyToOneProps ==
    {i \in 1..Len(mapper) :
        mapper[i].kind = "rel" /\ mapper[i].direction = "MANYTOONE"}

MultiColumnProps ==
    {i \in 1..Len(mapper) : mapper[i].kind = "col" /\ Len(mapper[i].columns) > 1}

KeysOf(S) == {mapper[i].key : i \in S}

SortableReturned == sortable_columns.called /\ ~sortable_columns.raised

\* C1: the key of a column property whose column (columns[0], the one the
\* code looks at) is a primary key or carries a foreign key is never in the
\* list scaffold_list_columns returns nor a key of the dictionary
\* scaffold_sortable_columns returns.
C1_KeyColumnsNeverScaffolded ==
    \A i \in KeyColumnProps :
        /\ list_columns.called => mapper[i].key \notin Range(list_columns.columns)
        /\ SortableReturned => mapper[i].key \notin DOMAIN sortable_columns.columns

C1_Witness ==
    /\ KeyColumnProps # {}
    /\ \E i \in KeyColumnProps : mapper[i].columns[1].foreign_keys
    /\ list_columns.called /\ list_columns.columns # <<>>
    /\ SortableReturned /\ DOMAIN sortable_columns.columns # {}

\* C10: without multi-column properties the sortable keys are the list
\* columns minus the many-to-one relationship keys, each mapped to itself;
\* with a multi-column property scaffold_sortable_columns raises (whatever
\* that property's first column is) while scaffold_list_columns returns and
\* decides by the first column only.
C10_SortableVersusList ==
    /\ (MultiColumnProps = {} /\ sortable_columns.called) =>
          /\ ~sortable_columns.raised
          /\ \A k \in DOMAIN sortable_columns.columns :
                sortable_columns.columns[k] = k
          /\ list_columns.called =>
                /\ DOMAIN sortable_columns.columns \subseteq Range(list_columns.columns)
                /\ DOMAIN sortable_columns.columns =
                      Range(list_columns.columns) \ KeysOf(ManyToOneProps)
    /\ (MultiColumnProps # {} /\ sortable_columns.called) =>
          sortable_columns.raised
    /\ list_columns.called =>
          Range(list_columns.columns) =
              KeysOf(ManyToOneProps) \cup KeysOf(PlainColumnProps)

C10_Witness ==
    /\ \E i \in MultiColumnProps : i \in KeyColumnProps
    /\ ManyToOneProps # {}
    /\ sortable_columns.called /\ sortable_columns.raised
    /\ list_columns.called /\ list_columns.columns # <<>>

(***************************************************************************)
(* Properties of the converter (SpecConvert)                               *)
(***************************************************************************)
LocalColumn == prop.columns[1]

IsOneToMany == prop.kind = "rel" /\ prop.direction = "ONETOMANY"

\* C5: a one-to-many relationship that is a backref (its local column has
\* no foreign key) gives no field when hide_backrefs is set; with
\* hide_backrefs unset, or a foreign key on the local column, it gives a
\* multi-select field.
C5_BackrefSuppression ==
    (form_field.called /\ IsOneToMany) =>
        IF ~LocalColumn.foreign_keys /\ hide_backrefs
        THEN form_field.field = "None"
        ELSE form_field.field = "QuerySelectMultipleField"

C5_Witness ==
    /\ form_field.called /\ IsOneToMany
    /\ ~LocalColumn.foreign_keys /\ hide_backrefs
    /\ form_field.field = "None"

ExpectedAllowBlank ==
    IF ~field_args.is_none /\ "allow_blank" \in DOMAIN field_args.items
    THEN field_args.items["allow_blank"]
    ELSE LocalColumn.nullable

\* C6: a relationship becomes a field chosen by its direction: many-to-one a
\* single select whatever hide_backrefs says, one-to-many a multi-select
\* unless suppressed as a backref, any other direction no field; allow_blank
\* is the nullability of the first local column unless field_args gives one.
C6_RelationshipFields ==
    (form_field.called /\ prop.kind = "rel") =>
        /\ prop.direction = "MANYTOONE" => form_field.field = "QuerySelectField"
        /\ prop.direction = "ONETOMANY" =>
              form_field.field = IF ~LocalColumn.foreign_keys /\ hide_backrefs
                                 THEN "None"
                                 ELSE "QuerySelectMultipleField"
        /\ prop.direction \notin {"MANYTOONE", "ONETOMANY"} =>
              form_field.field = "None"
        /\ form_field.field # "None" =>
              form_field.kwargs["allow_blank"] = ExpectedAllowBlank

C6_Witness ==
    /\ form_field.called /\ prop.kind = "rel" /\ prop.direction = "MANYTOONE"
    /\ hide_backrefs /\ ~LocalColumn.foreign_keys
    /\ ~field_args.is_none /\ "allow_blank" \in DOMAIN field_args.items
    /\ field_args.items["allow_blank"] # LocalColumn.nullable
    /\ form_field.field = "QuerySelectField"

\* C7: a column property whose column (columns[0]) is a primary key or
\* carries a foreign key gives no field; every other property that is no
\* relationship goes to the base converter with the same arguments.
C7_ColumnFields ==
    (form_field.called /\ prop.kind # "rel") =>
        IF prop.kind = "col" /\ (LocalColumn.primary_key \/ LocalColumn.foreign_keys)
        THEN form_field.field = "None"
        ELSE /\ form_field.field = "super.convert"
             /\ form_field.super_args = <<"model", "mapper", prop, field_args>>

C7_Witness ==
    /\ form_field.called /\ prop.kind = "col"
    /\ LocalColumn.foreign_keys /\ ~LocalColumn.primary_key
    /\ form_field.field = "None"

(***************************************************************************)
(* Properties of get_list (SpecList)                                       *)
(***************************************************************************)
Min(a, b) == IF a < b THEN a ELSE b

\* The whole result of the query a call built, before pagination.
WholeResult == Selected(table, list_result.query)

FirstPosition ==
    IF list_result.args.has_page THEN list_result.args.page * page_size ELSE 0

C8_Page ==
    list_result.called =>
        /\ list_result.count = Len(table)
        /\ list_result.executed =>
              /\ Len(list_result.rows) <= page_size
              /\ list_result.rows =
                    SubSeq(WholeResult, FirstPosition + 1,
                           Min(FirstPosition + page_size, Len(WholeResult)))

\* C8: get_list returns the number of stored models, whatever page, sorting
\* and page size, and at most page_size rows: those at positions
\* page*page_size .. page*page_size+page_size-1 of the result (the first
\* page_size without a page); it never changes the stored models.
C8_CountAndPage == [](C8_Page) /\ [][table' = table]_vars

C8_Witness ==
    /\ list_result.called /\ list_result.executed
    /\ list_result.args.has_page /\ list_result.args.page = 1
    /\ page_size = 1
    /\ list_result.rows = <<2>>

Whitelisted ==
    /\ list_result.args.has_sort
    /\ list_result.args.sort_column \in DOMAIN SortableColumns
    /\ SortableColumns[list_result.args.sort_column].type
          \in {"basestring", "InstrumentedAttribute"}

RowsInOrder(order_by, is_desc) ==
    \A i \in 1..(Len(list_result.rows) - 1) :
        LET a == SortKey(table, list_result.rows[i], order_by)
            b == SortKey(table, list_result.rows[i + 1], order_by)
        IN IF is_desc THEN a >= b ELSE a <= b

Unsorted(has_page, page, execute) ==
    get_list(table, page_size, has_page, page, FALSE, "missing", FALSE, execute)

\* C9: the result is ordered only by a whitelisted field: when sort_column
\* is a key of the sortable columns mapped to a string or an instrumented
\* attribute the rows come in that field's order (descending with
\* sort_desc); otherwise no ordering is applied, and count and rows are
\* those of the call without sorting.
C9_WhitelistedOrdering ==
    list_result.called =>
        IF Whitelisted
        THEN /\ list_result.query.order_by =
                   SortableColumns[list_result.args.sort_column].parts
             /\ list_result.query.desc = list_result.args.sort_desc
             /\ list_result.executed =>
                   RowsInOrder(list_result.query.order_by, list_result.args.sort_desc)
        ELSE LET plain == Unsorted(list_result.args.has_page, list_result.args.page,
                                   list_result.executed)
             IN /\ list_result.query.order_by = <<>>
                /\ list_result.query.join = "None"
                /\ list_result.count = plain.count
                /\ list_result.rows = plain.rows

C9_Witness ==
    /\ list_result.called /\ list_result.executed
    /\ list_result.args.has_sort /\ list_result.args.sort_column = "other"
    /\ list_result.args.sort_desc
    /\ Len(list_result.rows) = 2
    /\ table[1].name < table[2].name

(***************************************************************************)
(* Properties of the model handlers (Spec)                                 *)
(***************************************************************************)
SessionClean == pending = <<>> /\ mem = db

\* C2: a create_model or update_model that returned False leaves no pending
\* object and no uncommitted attribute change in the session, and the
\* committed rows only ever hold the data of successful calls.
C2_NoPartialState ==
    /\ (last.op \in {"create_model", "update_model"} /\ last.ret = "False") =>
          SessionClean
    /\ db = accepted

\* C3: every exception raised in create_model or update_model is caught: the
\* call flashes exactly one 'error' message and returns False; a call in
\* which nothing raises returns True and flashes nothing.  Stated for the
\* exceptions the handler names, the instances of Exception.
C3_EveryExceptionCaught ==
    (last.op \in {"create_model", "update_model"}
        /\ (last.step = "none" \/ last.exc.is_Exception)) =>
        /\ last.ret # "raise"
        /\ last.step # "none" =>
              /\ last.ret = "False"
              /\ Len(flashes) = last.flashes_before + 1
              /\ flashes[Len(flashes)].category = "error"
        /\ last.step = "none" =>
              /\ last.ret = "True"
              /\ Len(flashes) = last.flashes_before

\* C4: delete_model handles no error: an exception of session.delete or
\* session.commit reaches the caller unchanged, nothing is flashed, and a
\* call that succeeds returns None, not True.
C4_DeleteUnhandled ==
    last.op = "delete_model" =>
        /\ Len(flashes) = last.flashes_before
        /\ last.step # "none" =>
              last.ret = "raise" /\ last.propagated = last.exc
        /\ last.step = "none" => last.ret = "None"

C4_Witness ==
    /\ last.op = "delete_model" /\ last.step = "commit"
    /\ last.exc.is_Exception /\ last.exc.str_ok
    /\ last.ret = "raise"

====
